---- MODULE Spec2Model ----
(***************************************************************************)
(* A model of netx: the listen-address resolver (resolveListen, Listen,    *)
(* ListenPacket) and the connection server (Server.ListenAndServe,         *)
(* Server.Serve, Server.serve, Server.recover).                            *)
(*                                                                         *)
(* Go strings are sequences of one-character strings, so that prefix,      *)
(* index and slice operations are computed the way the code computes them. *)
(***************************************************************************)
EXTENDS Integers, Sequences, FiniteSets, TLC

(***************************************************************************)
(* Bounds of the model.                                                    *)
(***************************************************************************)
\* connections the listener can deliver in one run of Serve
MaxConns == 2
\* transient accept errors the listener can raise in one run of Serve
MaxTransient == 9

(***************************************************************************)
(* Strings.                                                                *)
(***************************************************************************)
Empty == << >>

\* s[i:j] of Go (0-based, j exclusive)
Slice(s, i, j) == SubSeq(s, i + 1, j)

\* s[i:] of Go
SliceFrom(s, i) == SubSeq(s, i + 1, Len(s))

\* strings.HasPrefix
HasPrefix(s, p) == Len(p) <= Len(s) /\ SubSeq(s, 1, Len(p)) = p

\* strings.Index: the 0-based offset of the first occurrence of sub, or -1
Index(s, sub) ==
    LET hits == {i \in 0..(Len(s) - Len(sub)) : Slice(s, i, i + Len(sub)) = sub}
    IN  IF hits = {} THEN -1 ELSE CHOOSE i \in hits : \A j \in hits : i <= j

\* the 0-based offset of the last occurrence of the character ch, or -1
LastIndex(s, ch) ==
    LET hits == {i \in 0..(Len(s) - 1) : s[i + 1] = ch}
    IN  IF hits = {} THEN -1 ELSE CHOOSE i \in hits : \A j \in hits : j <= i

SchemeSep == <<":", "/", "/">>

(***************************************************************************)
(* Errors.  An error value is a record; Nil is Go's nil error.             *)
(***************************************************************************)
Nil == [kind |-> "nil", arg |-> Empty]

\* errors.New("unsupported protocol: " + address[:off])
ErrUnsupported(scheme) == [kind |-> "unsupported protocol", arg |-> scheme]

\* the error of net.InterfaceByName for a name that is no interface
ErrNoInterface(name) == [kind |-> "no such network interface", arg |-> name]

\* the error of net.Interface.Addrs
ErrIfaceAddrs(name) == [kind |-> "interface addrs", arg |-> name]

\* the error of net.Listen / net.ListenPacket on one target
ErrBind(target) == [kind |-> "bind", arg |-> target]

\* the error of net.SplitHostPort
ErrSplit(hostport) == [kind |-> "split", arg |-> hostport]

(***************************************************************************)
(* net.SplitHostPort and net.JoinHostPort, as the standard library         *)
(* computes them.                                                          *)
(***************************************************************************)
SplitFail(hostport) == [host |-> Empty, port |-> Empty, err |-> ErrSplit(hostport)]

SplitHostPort(hostport) ==
    LET i == LastIndex(hostport, ":")
    IN  IF i < 0 THEN SplitFail(hostport)
        ELSE IF hostport[1] = "["
        THEN LET end == Index(hostport, <<"]">>)
             IN  IF end < 0 THEN SplitFail(hostport)
                 ELSE IF end + 1 = Len(hostport) THEN SplitFail(hostport)
                 ELSE IF end + 1 # i THEN SplitFail(hostport)
                 ELSE IF Index(SliceFrom(hostport, 1), <<"[">>) >= 0
                      THEN SplitFail(hostport)
                 ELSE IF Index(SliceFrom(hostport, end + 1), <<"]">>) >= 0
                      THEN SplitFail(hostport)
                 ELSE [host |-> Slice(hostport, 1, end),
                       port |-> SliceFrom(hostport, i + 1),
                       err  |-> Nil]
        ELSE LET h == Slice(hostport, 0, i)
             IN  IF Index(h, <<":">>) >= 0 THEN SplitFail(hostport)
                 ELSE IF Index(hostport, <<"[">>) >= 0 THEN SplitFail(hostport)
                 ELSE IF Index(hostport, <<"]">>) >= 0 THEN SplitFail(hostport)
                 ELSE [host |-> h,
                       port |-> SliceFrom(hostport, i + 1),
                       err  |-> Nil]

JoinHostPort(host, port) ==
    IF Index(host, <<":">>) >= 0 \/ Index(host, <<"%">>) >= 0
    THEN <<"[">> \o host \o <<"]", ":">> \o port
    ELSE host \o <<":">> \o port

(***************************************************************************)
(* IsIP: whether a string is an IP literal (dotted IPv4, or IPv6).         *)
(***************************************************************************)
Digits == {"0", "1", "2", "3", "4", "5", "6", "7", "8", "9"}

HexDigits == Digits \cup {"a", "b", "c", "d", "e", "f"}

\* the number of occurrences of the character ch
Count(s, ch) == Cardinality({i \in 1..Len(s) : s[i] = ch})

\* the positions of the dots, with 0 and Len+1 as the outer fences
IsIPv4(s) ==
    LET dots   == {i \in 1..Len(s) : s[i] = "."}
        fences == dots \cup {0, Len(s) + 1}
    IN  /\ Cardinality(dots) = 3
        /\ \A i \in 1..Len(s) : s[i] \in Digits \cup {"."}
        /\ \A a \in fences : \A b \in fences :
              (a < b /\ \A m \in fences : ~(a < m /\ m < b))
                 => (b - a - 1 >= 1 /\ b - a - 1 <= 3)

IsIPv6(s) ==
    /\ Len(s) >= 2
    /\ \A i \in 1..Len(s) : s[i] \in HexDigits \cup {":"}
    /\ \/ Index(s, <<":", ":">>) >= 0 /\ Count(s, ":") <= 7
       \/ Count(s, ":") = 7
    /\ Index(s, <<":", ":", ":">>) < 0

IsIP(s) == IsIPv4(s) \/ IsIPv6(s)

(***************************************************************************)
(* The strings of the code, and the addresses the model resolves.          *)
(***************************************************************************)
S_tcp == <<"t", "c", "p">>
S_tcp4 == <<"t", "c", "p", "4">>
S_tcp6 == <<"t", "c", "p", "6">>
S_unix == <<"u", "n", "i", "x">>
S_unixpacket == <<"u", "n", "i", "x", "p", "a", "c", "k", "e", "t">>
S_udp == <<"u", "d", "p">>
S_udp4 == <<"u", "d", "p", "4">>
S_udp6 == <<"u", "d", "p", "6">>
S_ip == <<"i", "p">>
S_ip4 == <<"i", "p", "4">>
S_ip6 == <<"i", "p", "6">>
S_unixdgram == <<"u", "n", "i", "x", "d", "g", "r", "a", "m">>
S_eth0 == <<"e", "t", "h", "0">>
S_lo == <<"l", "o">>
IfAddr4 == <<"1", "0", ".", "0", ".", "0", ".", "1", "/", "8">>
IfAddr6 == <<"f", "e", "8", "0", ":", ":", "1", "/", "6", "4">>

\* "tcp6://[::1]:0"
A_tcp6_loopback == <<"t", "c", "p", "6", ":", "/", "/", "[", ":", ":", "1", "]", ":", "0">>

\* ":9000"
A_port_only == <<":", "9", "0", "0", "0">>

\* "/tmp/sock.s"
A_path == <<"/", "t", "m", "p", "/", "s", "o", "c", "k", ".", "s">>

\* "xyz://host:1"
A_xyz == <<"x", "y", "z", ":", "/", "/", "h", "o", "s", "t", ":", "1">>

\* "TCP://host:1"
A_upper == <<"T", "C", "P", ":", "/", "/", "h", "o", "s", "t", ":", "1">>

\* "/a://b"
A_inner_sep == <<"/", "a", ":", "/", "/", "b">>

\* "udp://1.2.3.4:53"
A_udp_ip == <<"u", "d", "p", ":", "/", "/", "1", ".", "2", ".", "3", ".", "4", ":", "5", "3">>

\* "127.0.0.1:80"
A_ip_port == <<"1", "2", "7", ".", "0", ".", "0", ".", "1", ":", "8", "0">>

\* "10.0.0.1"
A_ip_bare == <<"1", "0", ".", "0", ".", "0", ".", "1">>

\* "eth0:80"
A_if_port == <<"e", "t", "h", "0", ":", "8", "0">>

\* "eth0"
A_if_bare == <<"e", "t", "h", "0">>

\* "tcp4://eth0:80"
A_tcp4_if == <<"t", "c", "p", "4", ":", "/", "/", "e", "t", "h", "0", ":", "8", "0">>

\* "lo:80"
A_lo_port == <<"l", "o", ":", "8", "0">>

\* "unix:///tmp/s"
A_unix_path == <<"u", "n", "i", "x", ":", "/", "/", "/", "t", "m", "p", "/", "s">>

\* "host:1"
A_host_port == <<"h", "o", "s", "t", ":", "1">>

Addresses ==
    {A_tcp6_loopback,
     A_port_only,
     A_path,
     A_xyz,
     A_upper,
     A_inner_sep,
     A_udp_ip,
     A_ip_port,
     A_ip_bare,
     A_if_port,
     A_if_bare,
     A_tcp4_if,
     A_lo_port,
     A_unix_path,
     A_host_port}

(***************************************************************************)
(* The network interfaces of the host: net.InterfaceByName and             *)
(* net.Interface.Addrs read this table.  An interface configuration     *)
(* maps each interface name to the addresses bound to it (a.String() of    *)
(* each, in enumeration order) and to whether enumerating them fails.      *)
(***************************************************************************)
NoInterfaces == [n \in {} |-> [addrs |-> << >>, fails |-> FALSE]]

IfaceConfigs ==
    { NoInterfaces,
      [n \in {S_eth0, S_lo} |->
          IF n = S_eth0 THEN [addrs |-> <<IfAddr4, IfAddr6>>, fails |-> FALSE]
                        ELSE [addrs |-> << >>, fails |-> FALSE]],
      [n \in {S_eth0} |-> [addrs |-> <<IfAddr4>>, fails |-> TRUE]] }

\* net.InterfaceByName: the error is nil exactly for a configured name
InterfaceByName(ifs, name) ==
    IF name \in DOMAIN ifs THEN Nil ELSE ErrNoInterface(name)

(***************************************************************************)
(* resolveListen.                                                          *)
(***************************************************************************)
\* the protocol lists of Listen and ListenPacket, in the order of the code
ListenProtocols == <<S_tcp4, S_tcp6, S_tcp, S_unixpacket, S_unix>>

ListenPacketProtocols ==
    <<S_udp4, S_udp6, S_udp, S_ip4, S_ip6, S_ip, S_unixdgram>>

\* the scheme step with the rejection of an unknown scheme left out
resolveScheme_NoReject(address, protocols) ==
    LET off     == Index(address, SchemeSep)
        matches == {i \in 1..Len(protocols) :
                       HasPrefix(address, protocols[i] \o SchemeSep)}
        first   == CHOOSE i \in matches : \A j \in matches : i <= j
    IN  IF off >= 0 /\ matches # {}
        THEN [network |-> protocols[first],
              address |-> SliceFrom(address, Len(protocols[first]) + 3),
              err     |-> Nil]
        ELSE [network |-> Empty, address |-> address, err |-> Nil]

\* the scheme step: the first protocol p of the list with address starting
\* "p://" fixes the network and is cut off the address; "://" with no such
\* protocol is an error
resolveScheme(address, protocols) ==
    LET off     == Index(address, SchemeSep)
        matches == {i \in 1..Len(protocols) :
                       HasPrefix(address, protocols[i] \o SchemeSep)}
        first   == CHOOSE i \in matches : \A j \in matches : i <= j
    IN  IF off < 0
        THEN [network |-> Empty, address |-> address, err |-> Nil]
        ELSE IF matches # {}
        THEN [network |-> protocols[first],
              address |-> SliceFrom(address, Len(protocols[first]) + 3),
              err     |-> Nil]
        ELSE [network |-> Empty, address |-> address,
              err     |-> ErrUnsupported(Slice(address, 0, off))]

\* the host and port of the working address
resolveHostPort(address) ==
    LET shp == SplitHostPort(address)
    IN  IF shp.err = Nil THEN [host |-> shp.host, port |-> shp.port]
        ELSE IF HasPrefix(address, <<":">>)
        THEN [host |-> Empty, port |-> SliceFrom(address, 1)]
        ELSE [host |-> address, port |-> Empty]

\* the targets of an interface with the port left off
ifaceTargets_NoPort(ifa, port) == ifa

\* the targets of an interface: each address, joined with the port if any
RECURSIVE ifaceTargets(_, _)
ifaceTargets(ifa, port) ==
    IF ifa = << >> THEN << >>
    ELSE <<IF Len(port) # 0 THEN JoinHostPort(Head(ifa), port) ELSE Head(ifa)>>
         \o ifaceTargets(Tail(ifa), port)

\* the default taken whether or not a scheme fixed the network
orDefault_Always(network, default) == default

\* network if a scheme fixed it, else the default
orDefault(network, default) == IF Len(network) = 0 THEN default ELSE network

\* the classification of the host: IP literal, interface name, or path.
\* err is the named result: the interface lookup assigns it, and the path
\* branch returns it as the lookup left it.
resolveHost(network, address, defaultProtoNetwork, defaultProtoUnix, ifs) ==
    LET hp == resolveHostPort(address)
    IN  IF IsIP(hp.host)
        THEN [network |-> orDefault(network, defaultProtoNetwork),
              addrs   |-> <<address>>,
              err     |-> Nil]
        ELSE IF InterfaceByName(ifs, hp.host) = Nil
        THEN IF ifs[hp.host].fails
             THEN [network |-> network, addrs |-> << >>,
                   err |-> ErrIfaceAddrs(hp.host)]
             ELSE [network |-> orDefault(network, defaultProtoNetwork),
                   addrs   |-> ifaceTargets(ifs[hp.host].addrs, hp.port),
                   err     |-> Nil]
        ELSE [network |-> orDefault(network, defaultProtoUnix),
              addrs   |-> <<address>>,
              err     |-> InterfaceByName(ifs, hp.host)]

resolveListen(address, defaultProtoNetwork, defaultProtoUnix, protocols, ifs) ==
    LET sch == resolveScheme(address, protocols)
    IN  IF sch.err # Nil
        THEN [network |-> sch.network, addrs |-> << >>, err |-> sch.err]
        ELSE resolveHost(sch.network, sch.address,
                         defaultProtoNetwork, defaultProtoUnix, ifs)

(***************************************************************************)
(* Program constants of Accept's retry policy (milliseconds).              *)
(***************************************************************************)
BackoffFloor == 5

BackoffCeiling == 1000

(***************************************************************************)
(* State.                                                                  *)
(***************************************************************************)
VARIABLES
    \* Listen / ListenPacket / ListenAndServe
    pc,          \* position of the caller: "idle", "resolve", "bind",
                 \* "listen_ret", "serve", "done"
    op,          \* the entry point: "Listen", "ListenPacket", "ListenAndServe"
    Addr,        \* the address argument (Server.Addr)
    ifaces,      \* the interface configuration of the host during the call
    network,     \* Listen's network
    addrs,       \* Listen's addrs
    err,         \* Listen's err, then ListenAndServe's err
    idx,         \* position of the range loop over addrs (1-based)
    lstn,        \* Listen's result: [ok |-> FALSE] is the nil listener
    tried,       \* the targets handed to net.Listen, in order
    \* Server.Serve
    spc,         \* position of Serve: "none", "loop", "accept", "sleep",
                 \* "add", "go", "cancel", "wait", "close", "returned", "panic"
    lstnClosed,  \* Serve has called lstn.Close()
    cancelled,   \* cancel() was called: context.Done() is closed
    join,        \* the counter of the sync.WaitGroup
    accepted,    \* connections accepted so far; the last one is conn
    serveErr,    \* Serve's named result err
    acceptErr,   \* the fatal error Accept returned, Nil before
    \* Accept
    backoff,     \* the current backoff of this Accept call
    attempt,     \* transient errors of this Accept call so far
    reported,    \* the backoff last handed to errf in this Accept call
    slept,       \* the time this Accept call has slept
    \* Server.serve, one task per connection
    tpc,         \* position of the task: "none", "start", "running",
                 \* "close", "done", "recover", "exit"
    panicked,    \* ServeConn panicked
    connCloses,  \* number of conn.Close() calls made on the connection
    joinDones,   \* number of join.Done() calls made by the task
    panicLog,    \* connections whose panic s.recover has logged
    serveConnCalls, \* number of ServeConn invocations on the connection
    startCtx,    \* the context as it was when ServeConn was invoked:
                 \* "none" (not invoked), "live", "cancelled"
    peerAddr,    \* addr, the argument of the first deferred function:
                 \* conn.RemoteAddr().String() taken when the task starts
    loggedAddr   \* the address s.recover has logged for the connection

vars == <<pc, op, Addr, ifaces, network, addrs, err, idx, lstn, tried,
          spc, lstnClosed, cancelled, join, accepted, serveErr, acceptErr,
          backoff, attempt, reported, slept,
          tpc, panicked, connCloses, joinDones, panicLog,
          serveConnCalls, startCtx, peerAddr, loggedAddr>>

listenVars == <<op, Addr, ifaces, network, addrs, err, idx, lstn, tried>>

serveVars == <<spc, lstnClosed, cancelled, join, accepted, serveErr, acceptErr>>

acceptVars == <<backoff, attempt, reported, slept>>

\* what the task's start fixes, and what its log line carries
taskObs == <<serveConnCalls, startCtx, peerAddr, loggedAddr>>

taskVars == <<tpc, panicked, connCloses, joinDones, panicLog, taskObs>>

\* conn.RemoteAddr().String() of the connection c
RemoteAddr(c) == <<"peer", c>>

NoAddr == <<"none", 0>>

Conns == 1..MaxConns

NilListener == [ok |-> FALSE, target |-> Empty]

Listener(target) == [ok |-> TRUE, target |-> target]

\* the errors lstn.Accept can fail with for good
ErrClosed == [kind |-> "use of closed network connection", arg |-> Empty]

ErrAccept == [kind |-> "accept failed", arg |-> Empty]

FatalErrors == {ErrClosed, ErrAccept}

Min2(a, b) == IF a <= b THEN a ELSE b

Init ==
    /\ pc = "idle"
    /\ op = "none"
    /\ Addr = Empty
    /\ ifaces = NoInterfaces
    /\ network = Empty
    /\ addrs = << >>
    /\ err = Nil
    /\ idx = 0
    /\ lstn = NilListener
    /\ tried = << >>
    /\ spc = "none"
    /\ lstnClosed = FALSE
    /\ cancelled = FALSE
    /\ join = 0
    /\ accepted = 0
    /\ serveErr = Nil
    /\ acceptErr = Nil
    /\ backoff = 0
    /\ attempt = 0
    /\ reported = 0
    /\ slept = 0
    /\ tpc = [c \in Conns |-> "none"]
    /\ panicked = [c \in Conns |-> FALSE]
    /\ connCloses = [c \in Conns |-> 0]
    /\ joinDones = [c \in Conns |-> 0]
    /\ panicLog = {}
    /\ serveConnCalls = [c \in Conns |-> 0]
    /\ startCtx = [c \in Conns |-> "none"]
    /\ peerAddr = [c \in Conns |-> NoAddr]
    /\ loggedAddr = [c \in Conns |-> NoAddr]

(***************************************************************************)
(* Listen, ListenPacket, Server.ListenAndServe.                            *)
(***************************************************************************)
Call(o, a, cfg) ==
    /\ pc = "idle"
    /\ pc' = "resolve"
    /\ op' = o
    /\ Addr' = a
    /\ ifaces' = cfg
    /\ UNCHANGED <<network, addrs, err, idx, lstn, tried>>
    /\ UNCHANGED <<serveVars, acceptVars, taskVars>>

CallListen == \E a \in Addresses : \E cfg \in IfaceConfigs : Call("Listen", a, cfg)

CallListenPacket ==
    \E a \in Addresses : \E cfg \in IfaceConfigs : Call("ListenPacket", a, cfg)

CallListenAndServe ==
    \E a \in Addresses : \E cfg \in IfaceConfigs : Call("ListenAndServe", a, cfg)

\* the call of resolveListen by Listen and by ListenPacket
Resolved ==
    IF op = "ListenPacket"
    THEN resolveListen(Addr, S_udp, S_unixdgram, ListenPacketProtocols, ifaces)
    ELSE resolveListen(Addr, S_tcp, S_unix, ListenProtocols, ifaces)

\* Listen's first statement: resolve, and return at once on an error
Resolve ==
    /\ pc = "resolve"
    /\ network' = Resolved.network
    /\ addrs' = Resolved.addrs
    /\ err' = Resolved.err
    /\ idx' = 1
    /\ pc' = IF Resolved.err # Nil THEN "listen_ret" ELSE "bind"
    /\ UNCHANGED <<op, Addr, ifaces, lstn, tried>>
    /\ UNCHANGED <<serveVars, acceptVars, taskVars>>

\* the range loop without its break: a success does not end the loop
BindOK_NoBreak ==
    /\ pc = "bind"
    /\ idx <= Len(addrs)
    /\ tried' = Append(tried, addrs[idx])
    /\ lstn' = Listener(addrs[idx])
    /\ err' = Nil
    /\ idx' = idx + 1
    /\ UNCHANGED <<pc, op, Addr, ifaces, network, addrs>>
    /\ UNCHANGED <<serveVars, acceptVars, taskVars>>

\* one iteration of the range loop whose net.Listen succeeds: break
BindOK ==
    /\ pc = "bind"
    /\ idx <= Len(addrs)
    /\ tried' = Append(tried, addrs[idx])
    /\ lstn' = Listener(addrs[idx])
    /\ err' = Nil
    /\ pc' = "listen_ret"
    /\ UNCHANGED <<op, Addr, ifaces, network, addrs, idx>>
    /\ UNCHANGED <<serveVars, acceptVars, taskVars>>

\* one iteration of the range loop whose net.Listen fails: next target
BindFail ==
    /\ pc = "bind"
    /\ idx <= Len(addrs)
    /\ tried' = Append(tried, addrs[idx])
    /\ lstn' = NilListener
    /\ err' = ErrBind(addrs[idx])
    /\ idx' = idx + 1
    /\ UNCHANGED <<pc, op, Addr, ifaces, network, addrs>>
    /\ UNCHANGED <<serveVars, acceptVars, taskVars>>

\* the range loop is over
BindEnd ==
    /\ pc = "bind"
    /\ idx > Len(addrs)
    /\ pc' = "listen_ret"
    /\ UNCHANGED listenVars
    /\ UNCHANGED <<serveVars, acceptVars, taskVars>>

\* Listen or ListenPacket returns (lstn, err) to its caller
ListenReturn ==
    /\ pc = "listen_ret"
    /\ op \in {"Listen", "ListenPacket"}
    /\ pc' = "done"
    /\ UNCHANGED listenVars
    /\ UNCHANGED <<serveVars, acceptVars, taskVars>>

\* ListenAndServe with an error of Listen: return it
ListenAndServeFail ==
    /\ pc = "listen_ret"
    /\ op = "ListenAndServe"
    /\ err # Nil
    /\ pc' = "done"
    /\ UNCHANGED listenVars
    /\ UNCHANGED <<serveVars, acceptVars, taskVars>>

\* Serve with cancel() called where it is created instead of deferred
ListenAndServeServe_Cancelled ==
    /\ pc = "listen_ret"
    /\ op = "ListenAndServe"
    /\ err = Nil
    /\ pc' = "serve"
    /\ spc' = IF lstn.ok THEN "loop" ELSE "panic"
    /\ cancelled' = TRUE
    /\ Addr' = Empty
    /\ ifaces' = NoInterfaces
    /\ network' = Empty
    /\ addrs' = << >>
    /\ idx' = 0
    /\ tried' = << >>
    /\ lstn' = IF lstn.ok THEN Listener(Empty) ELSE NilListener
    /\ UNCHANGED <<op, err>>
    /\ UNCHANGED <<lstnClosed, join, accepted, serveErr, acceptErr>>
    /\ UNCHANGED <<acceptVars, taskVars>>

\* ListenAndServe with no error of Listen: call Serve(lstn).  Serve's first
\* statement, defer lstn.Close(), evaluates the method value and panics on
\* a nil listener.  The locals of Listen are dropped.
ListenAndServeServe ==
    /\ pc = "listen_ret"
    /\ op = "ListenAndServe"
    /\ err = Nil
    /\ pc' = "serve"
    /\ spc' = IF lstn.ok THEN "loop" ELSE "panic"
    /\ Addr' = Empty
    /\ ifaces' = NoInterfaces
    /\ network' = Empty
    /\ addrs' = << >>
    /\ idx' = 0
    /\ tried' = << >>
    /\ lstn' = IF lstn.ok THEN Listener(Empty) ELSE NilListener
    /\ UNCHANGED <<op, err>>
    /\ UNCHANGED <<lstnClosed, cancelled, join, accepted, serveErr, acceptErr>>
    /\ UNCHANGED <<acceptVars, taskVars>>

\* Serve has returned: ListenAndServe returns its error
ListenAndServeReturn ==
    /\ pc = "serve"
    /\ spc = "returned"
    /\ err' = serveErr
    /\ pc' = "done"
    /\ UNCHANGED <<op, Addr, ifaces, network, addrs, idx, lstn, tried>>
    /\ UNCHANGED <<serveVars, acceptVars, taskVars>>

(***************************************************************************)
(* Accept: lstn.Accept with retry and exponential backoff on transient     *)
(* errors, as Serve calls it with errf.                                    *)
(***************************************************************************)
\* the doubling with the ceiling left out
NextBackoff_NoCeiling(b) == 2 * b

\* the backoff after one more transient error
NextBackoff(b) == Min2(2 * b, BackoffCeiling)

\* Serve's loop calls Accept(lstn, errf): the backoff starts at the floor
AcceptCall ==
    /\ spc = "loop"
    /\ backoff' = BackoffFloor
    /\ attempt' = 0
    /\ reported' = 0
    /\ slept' = 0
    /\ spc' = "accept"
    /\ UNCHANGED <<lstnClosed, cancelled, join, accepted, serveErr, acceptErr>>
    /\ UNCHANGED <<pc, listenVars, taskVars>>

\* lstn.Accept fails with a transient error: errf(err, backoff) reports it
AcceptTransient ==
    /\ spc = "accept"
    /\ attempt < MaxTransient
    /\ attempt' = attempt + 1
    /\ reported' = backoff
    /\ spc' = "sleep"
    /\ UNCHANGED <<backoff, slept>>
    /\ UNCHANGED <<lstnClosed, cancelled, join, accepted, serveErr, acceptErr>>
    /\ UNCHANGED <<pc, listenVars, taskVars>>

\* time.Sleep(backoff), then the backoff doubles up to the ceiling
AcceptSleep ==
    /\ spc = "sleep"
    /\ slept' = slept + backoff
    /\ backoff' = NextBackoff(backoff)
    /\ spc' = "accept"
    /\ UNCHANGED <<attempt, reported>>
    /\ UNCHANGED <<lstnClosed, cancelled, join, accepted, serveErr, acceptErr>>
    /\ UNCHANGED <<pc, listenVars, taskVars>>

\* lstn.Accept succeeds: Accept returns the connection to Serve
AcceptConn ==
    /\ spc = "accept"
    /\ accepted < MaxConns
    /\ accepted' = accepted + 1
    /\ spc' = "add"
    /\ UNCHANGED <<lstnClosed, cancelled, join, serveErr, acceptErr>>
    /\ UNCHANGED <<pc, listenVars, acceptVars, taskVars>>

\* lstn.Accept fails for good: Accept returns the error, Serve assigns it to
\* its result and returns, which starts the deferred calls
AcceptFatal(e) ==
    /\ spc = "accept"
    /\ acceptErr' = e
    /\ serveErr' = e
    /\ spc' = "cancel"
    /\ UNCHANGED <<lstnClosed, cancelled, join, accepted>>
    /\ UNCHANGED <<pc, listenVars, acceptVars, taskVars>>

AcceptFails == \E e \in FatalErrors : AcceptFatal(e)

(***************************************************************************)
(* Server.Serve.                                                           *)
(***************************************************************************)
\* the task started without join.Add(1) before it
JoinAdd_NoAdd ==
    /\ spc = "add"
    /\ spc' = "go"
    /\ UNCHANGED <<lstnClosed, cancelled, join, accepted, serveErr, acceptErr>>
    /\ UNCHANGED <<pc, listenVars, acceptVars, taskVars>>

\* join.Add(1)
JoinAdd ==
    /\ spc = "add"
    /\ join' = join + 1
    /\ spc' = "go"
    /\ UNCHANGED <<lstnClosed, cancelled, accepted, serveErr, acceptErr>>
    /\ UNCHANGED <<pc, listenVars, acceptVars, taskVars>>

\* go s.serve(conn, context, join)
GoServe ==
    /\ spc = "go"
    /\ tpc' = [tpc EXCEPT ![accepted] = "start"]
    /\ spc' = "loop"
    /\ UNCHANGED <<lstnClosed, cancelled, join, accepted, serveErr, acceptErr>>
    /\ UNCHANGED <<panicked, connCloses, joinDones, panicLog>>
    /\ UNCHANGED taskObs
    /\ UNCHANGED <<pc, listenVars, acceptVars>>

\* the deferred calls in the order they are written: lstn.Close() runs
\* before cancel()
DeferCancel_ClosesFirst ==
    /\ spc = "cancel"
    /\ lstnClosed' = TRUE
    /\ cancelled' = TRUE
    /\ spc' = "wait"
    /\ UNCHANGED <<join, accepted, serveErr, acceptErr>>
    /\ UNCHANGED <<pc, listenVars, acceptVars, taskVars>>

\* cancel() left to run after join.Wait(): the wait starts uncancelled
DeferCancel_NoCancel ==
    /\ spc = "cancel"
    /\ spc' = "wait"
    /\ UNCHANGED <<lstnClosed, cancelled, join, accepted, serveErr, acceptErr>>
    /\ UNCHANGED <<pc, listenVars, acceptVars, taskVars>>

\* a shutdown that also closes the connections still being served
DeferCancel_ClosesConns ==
    /\ spc = "cancel"
    /\ cancelled' = TRUE
    /\ spc' = "wait"
    /\ connCloses' = [c \in Conns |->
                         IF tpc[c] \in {"start", "running"}
                         THEN connCloses[c] + 1 ELSE connCloses[c]]
    /\ UNCHANGED <<lstnClosed, join, accepted, serveErr, acceptErr>>
    /\ UNCHANGED <<tpc, panicked, joinDones, panicLog>>
    /\ UNCHANGED taskObs
    /\ UNCHANGED <<pc, listenVars, acceptVars>>

\* the deferred calls run last in, first out: cancel() is the first
DeferCancel ==
    /\ spc = "cancel"
    /\ cancelled' = TRUE
    /\ spc' = "wait"
    /\ UNCHANGED <<lstnClosed, join, accepted, serveErr, acceptErr>>
    /\ UNCHANGED <<pc, listenVars, acceptVars, taskVars>>

\* join.Wait() that does not block
DeferWait_NoBlock ==
    /\ spc = "wait"
    /\ spc' = "close"
    /\ UNCHANGED <<lstnClosed, cancelled, join, accepted, serveErr, acceptErr>>
    /\ UNCHANGED <<pc, listenVars, acceptVars, taskVars>>

\* join.Wait() returns once the counter is zero
DeferWait ==
    /\ spc = "wait"
    /\ join = 0
    /\ spc' = "close"
    /\ UNCHANGED <<lstnClosed, cancelled, join, accepted, serveErr, acceptErr>>
    /\ UNCHANGED <<pc, listenVars, acceptVars, taskVars>>

\* the error of lstn.Close() assigned to Serve's result
DeferClose_OverwritesErr ==
    /\ spc = "close"
    /\ lstnClosed' = TRUE
    /\ serveErr' = Nil
    /\ spc' = "returned"
    /\ UNCHANGED <<cancelled, join, accepted, acceptErr>>
    /\ UNCHANGED <<pc, listenVars, acceptVars, taskVars>>

\* lstn.Close() is the last deferred call; then Serve's result is delivered
DeferClose ==
    /\ spc = "close"
    /\ lstnClosed' = TRUE
    /\ spc' = "returned"
    /\ UNCHANGED <<cancelled, join, accepted, serveErr, acceptErr>>
    /\ UNCHANGED <<pc, listenVars, acceptVars, taskVars>>

(***************************************************************************)
(* Server.serve: the task of one connection.                               *)
(***************************************************************************)
\* the task starts: it takes conn.RemoteAddr(), registers its three deferred
\* calls and calls s.Handler.ServeConn(conn, context)
TaskStart(c) ==
    /\ tpc[c] = "start"
    /\ tpc' = [tpc EXCEPT ![c] = "running"]
    /\ peerAddr' = [peerAddr EXCEPT ![c] = RemoteAddr(c)]
    /\ serveConnCalls' = [serveConnCalls EXCEPT ![c] = @ + 1]
    /\ startCtx' = [startCtx EXCEPT ![c] = IF cancelled THEN "cancelled" ELSE "live"]
    /\ UNCHANGED loggedAddr
    /\ UNCHANGED <<panicked, connCloses, joinDones, panicLog>>
    /\ UNCHANGED <<pc, listenVars, serveVars, acceptVars>>

\* ServeConn returns
HandlerReturn(c) ==
    /\ tpc[c] = "running"
    /\ tpc' = [tpc EXCEPT ![c] = "close"]
    /\ UNCHANGED <<panicked, connCloses, joinDones, panicLog>>
    /\ UNCHANGED taskObs
    /\ UNCHANGED <<pc, listenVars, serveVars, acceptVars>>

\* a panic of ServeConn that nothing recovers: it ends the process, and
\* Serve with it
HandlerPanic_Unrecovered(c) ==
    /\ tpc[c] = "running"
    /\ tpc' = [tpc EXCEPT ![c] = "exit"]
    /\ panicked' = [panicked EXCEPT ![c] = TRUE]
    /\ spc' = "panic"
    /\ UNCHANGED <<lstnClosed, cancelled, join, accepted, serveErr, acceptErr>>
    /\ UNCHANGED <<connCloses, joinDones, panicLog>>
    /\ UNCHANGED taskObs
    /\ UNCHANGED <<pc, listenVars, acceptVars>>

\* ServeConn panics: the deferred calls of the task run
HandlerPanic(c) ==
    /\ tpc[c] = "running"
    /\ tpc' = [tpc EXCEPT ![c] = "close"]
    /\ panicked' = [panicked EXCEPT ![c] = TRUE]
    /\ UNCHANGED <<connCloses, joinDones, panicLog>>
    /\ UNCHANGED taskObs
    /\ UNCHANGED <<pc, listenVars, serveVars, acceptVars>>

\* the recovering function deferred last, so that it runs first: the panic
\* is logged before the connection is closed and the counter decremented
TaskClose_LogsPanic(c) ==
    /\ tpc[c] = "close"
    /\ connCloses' = [connCloses EXCEPT ![c] = @ + 1]
    /\ panicLog' = IF panicked[c] THEN panicLog \cup {c} ELSE panicLog
    /\ loggedAddr' = [loggedAddr EXCEPT ![c] = IF panicked[c] THEN peerAddr[c] ELSE @]
    /\ tpc' = [tpc EXCEPT ![c] = "done"]
    /\ UNCHANGED <<panicked, joinDones, serveConnCalls, startCtx, peerAddr>>
    /\ UNCHANGED <<pc, listenVars, serveVars, acceptVars>>

\* conn.Close() called after ServeConn instead of deferred: a panic skips it
TaskClose_OnlyOnReturn(c) ==
    /\ tpc[c] = "close"
    /\ connCloses' = [connCloses EXCEPT ![c] = IF panicked[c] THEN @ ELSE @ + 1]
    /\ tpc' = [tpc EXCEPT ![c] = "done"]
    /\ UNCHANGED <<panicked, joinDones, panicLog>>
    /\ UNCHANGED taskObs
    /\ UNCHANGED <<pc, listenVars, serveVars, acceptVars>>

\* defer conn.Close()
TaskClose(c) ==
    /\ tpc[c] = "close"
    /\ connCloses' = [connCloses EXCEPT ![c] = @ + 1]
    /\ tpc' = [tpc EXCEPT ![c] = "done"]
    /\ UNCHANGED <<panicked, joinDones, panicLog>>
    /\ UNCHANGED taskObs
    /\ UNCHANGED <<pc, listenVars, serveVars, acceptVars>>

\* defer join.Done()
TaskDone(c) ==
    /\ tpc[c] = "done"
    /\ join' = join - 1
    /\ joinDones' = [joinDones EXCEPT ![c] = @ + 1]
    /\ tpc' = [tpc EXCEPT ![c] = "recover"]
    /\ UNCHANGED <<panicked, connCloses, panicLog>>
    /\ UNCHANGED taskObs
    /\ UNCHANGED <<spc, lstnClosed, cancelled, accepted, serveErr, acceptErr>>
    /\ UNCHANGED <<pc, listenVars, acceptVars>>

\* the first deferred function: recover(), and s.recover logs a panic
TaskRecover(c) ==
    /\ tpc[c] = "recover"
    /\ panicLog' = IF panicked[c] THEN panicLog \cup {c} ELSE panicLog
    /\ loggedAddr' = [loggedAddr EXCEPT ![c] = IF panicked[c] THEN peerAddr[c] ELSE @]
    /\ UNCHANGED <<serveConnCalls, startCtx, peerAddr>>
    /\ tpc' = [tpc EXCEPT ![c] = "exit"]
    /\ UNCHANGED <<panicked, connCloses, joinDones>>
    /\ UNCHANGED <<pc, listenVars, serveVars, acceptVars>>

TaskStarts == \E c \in Conns : TaskStart(c)

HandlerReturns == \E c \in Conns : HandlerReturn(c)

HandlerPanics == \E c \in Conns : HandlerPanic(c)

TaskCloses == \E c \in Conns : TaskClose(c)

TaskDones == \E c \in Conns : TaskDone(c)

TaskRecovers == \E c \in Conns : TaskRecover(c)

(***************************************************************************)
(* The specifications.                                                     *)
(***************************************************************************)
Next ==
    \/ CallListen
    \/ CallListenPacket
    \/ CallListenAndServe
    \/ Resolve
    \/ BindOK
    \/ BindFail
    \/ BindEnd
    \/ ListenReturn
    \/ ListenAndServeFail
    \/ ListenAndServeServe
    \/ ListenAndServeReturn
    \/ AcceptCall
    \/ AcceptTransient
    \/ AcceptSleep
    \/ AcceptConn
    \/ AcceptFails
    \/ JoinAdd
    \/ GoServe
    \/ DeferCancel
    \/ DeferWait
    \/ DeferClose
    \/ TaskStarts
    \/ HandlerReturns
    \/ HandlerPanics
    \/ TaskCloses
    \/ TaskDones
    \/ TaskRecovers

Spec == Init /\ [][Next]_vars

\* Serve's own goroutine and the task goroutines are scheduled; a handler
\* is only assumed to end once the shutdown context is cancelled.
Fairness ==
    /\ WF_vars(DeferCancel)
    /\ WF_vars(DeferWait)
    /\ WF_vars(DeferClose)
    /\ \A c \in Conns :
          /\ WF_vars(TaskStart(c))
          /\ WF_vars(cancelled /\ (HandlerReturn(c) \/ HandlerPanic(c)))
          /\ WF_vars(TaskClose(c))
          /\ WF_vars(TaskDone(c))
          /\ WF_vars(TaskRecover(c))

LiveSpec == Spec /\ Fairness

(***************************************************************************)
(* Properties.                                                             *)
(***************************************************************************)
\* the connections Serve has started a task for
Dispatched == {c \in Conns : tpc[c] # "none"}

\* the tasks that have ended their handler call, closed their connection
\* and decremented the counter
Completed == {c \in Conns : tpc[c] \in {"recover", "exit"}}

C2_PanicContained ==
    (\E c \in Conns : panicked[c]) =>
        /\ spc # "panic"
        /\ serveErr = acceptErr
        /\ serveErr \in FatalErrors \cup {Nil}
        /\ (spc \in {"cancel", "wait", "close", "returned"}) = (acceptErr # Nil)
        /\ (spc = "loop" => ENABLED AcceptCall)
        /\ (spc = "accept" /\ accepted < MaxConns => ENABLED AcceptConn)
        /\ (spc = "add" => ENABLED JoinAdd)
        /\ (spc = "go" => ENABLED GoServe)
        /\ \A d \in Conns :
              (d <= accepted /\ ~(d = accepted /\ spc \in {"add", "go"}))
                 => d \in Dispatched

\* C2 witness: the first connection's handler panicked and the panic was
\* logged while Serve is in Accept with no further connection accepted yet.
C2_Witness ==
    /\ panicked[1]
    /\ 1 \in panicLog
    /\ accepted = 1
    /\ spc = "accept"
    /\ acceptErr = Nil

\* C3 (state part): a task closes its connection and decrements the counter
\* at most once, has done both exactly once when its deferred calls are
\* through, whether ServeConn returned or panicked, and the counter is the
\* number of registered tasks that have not decremented it.
C3_OnceEach ==
    /\ \A c \in Conns :
          /\ connCloses[c] = (IF tpc[c] \in {"done", "recover", "exit"} THEN 1 ELSE 0)
          /\ joinDones[c] = (IF tpc[c] \in {"recover", "exit"} THEN 1 ELSE 0)
    /\ join = Cardinality({c \in Conns : c <= accepted /\ joinDones[c] = 0
                                          /\ ~(c = accepted /\ spc = "add")})

\* C3 (step part): a connection is closed only by a step of its own task,
\* the deferred conn.Close(), and never by a step of Serve.
C3_ClosedByTask ==
    \A c \in Conns :
        connCloses'[c] # connCloses[c] =>
            /\ tpc[c] = "close"
            /\ tpc'[c] = "done"
            /\ spc' = spc

\* C3: every dispatched task closes its connection exactly once and
\* decrements the in-flight counter exactly once, on return and on panic;
\* Serve never closes an accepted connection.
C3_CloseAndDoneOnce == [](C3_OnceEach) /\ [][C3_ClosedByTask]_vars

\* C3 witness: one task ended by a panic and one by a return, each with one
\* close and one decrement.
C3_Witness ==
    /\ tpc[1] = "exit" /\ panicked[1]
    /\ tpc[2] = "exit" /\ ~panicked[2]
    /\ connCloses[1] = 1 /\ connCloses[2] = 1
    /\ joinDones[1] = 1 /\ joinDones[2] = 1

\* C4 as stated: once the shutdown signal is triggered, and during the whole
\* wait for the counter, the listener is already closed.
C4_ListenerClosedFirst == (cancelled \/ spc = "wait") => lstnClosed

\* C4 as amended: on a fatal accept error Serve first triggers the shutdown
\* signal, then waits for the in-flight counter to reach zero, and only then
\* closes the listener: Serve has not closed the listener while it drains.
C4_CancelWaitClose ==
    /\ (spc \in {"wait", "close", "returned"} => cancelled)
    /\ (cancelled => acceptErr \in FatalErrors)
    /\ (spc \in {"cancel", "wait", "close"} => ~lstnClosed)
    /\ (lstnClosed => cancelled /\ join = 0 /\ spc = "returned")
    /\ (spc = "returned" => lstnClosed)

\* C4 witness: Serve waits for a running task, the context is cancelled and
\* the listener is not closed yet.
C4_Witness ==
    /\ spc = "wait"
    /\ join > 0
    /\ cancelled
    /\ ~lstnClosed

\* C5: under the fairness of LiveSpec (Serve and the tasks are scheduled,
\* and a running handler ends once the context is cancelled), a fatal accept
\* error leads to Serve returning, and Serve once returned stays returned.
C5_ServeTerminates ==
    /\ (acceptErr # Nil) ~> (spc = "returned")
    /\ [][spc = "returned" => spc' = "returned"]_vars

\* C5 witness: Serve waits, the context is cancelled, and a handler that was
\* still running at the cancellation has not ended yet.
C5_Witness ==
    /\ spc = "wait"
    /\ cancelled
    /\ tpc[1] = "running"
    /\ tpc[2] = "running"
    /\ join = 2

\* C6: Serve's result is Nil as long as it accepts, a transient accept error
\* is handed to errf and retried with Serve's result still Nil, and from the
\* fatal accept error on, through the deferred calls and whatever the
\* handlers do, the result is exactly the error Accept returned.
C6_ReturnsFatalError ==
    /\ (spc \in {"loop", "accept", "sleep", "add", "go"} =>
           serveErr = Nil /\ acceptErr = Nil)
    /\ (spc = "sleep" => reported = backoff /\ attempt >= 1)
    /\ (spc \in {"cancel", "wait", "close", "returned"} =>
           serveErr = acceptErr /\ acceptErr \in FatalErrors)
    /\ (pc = "done" /\ op = "ListenAndServe" /\ lstn.ok => err = acceptErr)

\* C6 witness: Serve has returned the fatal error after transient errors in
\* its last Accept call and a handler panic, and ListenAndServe returned it.
C6_Witness ==
    /\ pc = "done"
    /\ spc = "returned"
    /\ err = ErrAccept
    /\ attempt = 2
    /\ panicked[1]

\* C7: a connection is not closed as long as its task has not seen ServeConn
\* return or panic, also after the context was cancelled and while Serve
\* drains; a running handler is only told of the shutdown by the context.
C7_NoCloseWhileRunning ==
    \A c \in Conns :
        tpc[c] \in {"none", "start", "running"} => connCloses[c] = 0

\* C7 witness: the context is cancelled, Serve waits, and a handler is still
\* running on its open connection.
C7_Witness ==
    /\ cancelled
    /\ spc = "wait"
    /\ tpc[1] = "running"
    /\ connCloses[1] = 0
    /\ tpc[2] = "exit"

RECURSIVE Pow2(_)
Pow2(n) == IF n = 0 THEN 1 ELSE 2 * Pow2(n - 1)

\* the backoff reported for the k-th consecutive transient error
KthBackoff(k) == Min2(BackoffFloor * Pow2(k - 1), BackoffCeiling)

RECURSIVE SleptAfter(_)
SleptAfter(k) == IF k = 0 THEN 0 ELSE SleptAfter(k - 1) + KthBackoff(k)

\* C8: in one Accept call the k-th consecutive transient error is reported
\* with min(floor * 2^(k-1), ceiling), Accept sleeps exactly that long before
\* the next try, a successful accept returns with no sleep beyond those, and
\* each Accept call starts at the floor.
C8_Backoff ==
    /\ (spc = "sleep" =>
           /\ reported = KthBackoff(attempt)
           /\ backoff = reported
           /\ slept = SleptAfter(attempt - 1))
    /\ (spc \in {"accept", "add"} =>
           /\ slept = SleptAfter(attempt)
           /\ backoff = KthBackoff(attempt + 1)
           /\ (attempt = 0 => backoff = BackoffFloor /\ slept = 0))

\* C8 witness: the second Accept call of Serve returns a connection after
\* nine transient errors, the last reported with the ceiling.
C8_Witness ==
    /\ spc = "add"
    /\ accepted = 2
    /\ attempt = 9
    /\ reported = BackoffCeiling
    /\ slept = 5 + 10 + 20 + 40 + 80 + 160 + 320 + 640 + 1000

\* the protocol list of the entry point
Protocols == IF op = "ListenPacket" THEN ListenPacketProtocols ELSE ListenProtocols

\* Addr contains "://" and starts with "p://" for no protocol p of the list
UnsupportedScheme ==
    /\ Index(Addr, SchemeSep) >= 0
    /\ \A i \in 1..Len(Protocols) : ~HasPrefix(Addr, Protocols[i] \o SchemeSep)

\* C9: for an address with "://" that starts with "p://" for no allowed p,
\* resolveListen returns the unsupported-protocol error with an empty
\* protocol and no targets, and Listen returns that error with a nil
\* listener and without any bind attempt.
C9_UnsupportedProtocol ==
    (pc \in {"bind", "listen_ret", "done"} /\ UnsupportedScheme) =>
        /\ err = ErrUnsupported(Slice(Addr, 0, Index(Addr, SchemeSep)))
        /\ network = Empty
        /\ addrs = << >>
        /\ pc # "bind"
        /\ tried = << >>
        /\ lstn = NilListener
        /\ spc = "none"

\* C9 witness: Listen("TCP://host:1") has returned the unsupported-protocol
\* error for the scheme "TCP".
C9_Witness ==
    /\ pc = "done"
    /\ op = "Listen"
    /\ Addr = A_upper
    /\ err = ErrUnsupported(<<"T", "C", "P">>)

\* Addr has no scheme and its host part is neither an IP literal nor the
\* name of a configured interface
PathAddress ==
    /\ Addr # Empty
    /\ Index(Addr, SchemeSep) < 0
    /\ ~IsIP(resolveHostPort(Addr).host)
    /\ resolveHostPort(Addr).host \notin DOMAIN ifaces

\* C10: for an address with no scheme whose host is neither an IP literal
\* nor an interface name, resolveListen returns the unix default, the input
\* string as its single target and no error, and Listen goes on to bind it.
C10_PathResolves ==
    (pc \in {"bind", "listen_ret", "done"} /\ PathAddress) =>
        /\ network = (IF op = "ListenPacket" THEN S_unixdgram ELSE S_unix)
        /\ addrs = <<Addr>>
        /\ err.kind # "no such network interface"
        /\ (pc \in {"listen_ret", "done"} => tried = <<Addr>>)

\* the working address and the network the scheme step leaves, computed
\* from Addr by cutting the first "p://" of the protocol list
SchemeOf ==
    LET ms == {i \in 1..Len(Protocols) : HasPrefix(Addr, Protocols[i] \o SchemeSep)}
    IN  IF ms = {} THEN Empty
        ELSE Protocols[CHOOSE i \in ms : \A j \in ms : i <= j]

Stripped ==
    IF SchemeOf = Empty THEN Addr ELSE SliceFrom(Addr, Len(SchemeOf) + 3)

StreamDefault == IF op = "ListenPacket" THEN S_udp ELSE S_tcp

UnixDefault == IF op = "ListenPacket" THEN S_unixdgram ELSE S_unix

\* Listen or ListenPacket is past its call of resolveListen and still holds
\* its results
AfterResolve == pc \in {"bind", "listen_ret", "done"} /\ spc = "none" /\ op # "none"

\* Addr is ":<port>": a colon followed by digits only
PortOnly ==
    /\ Len(Addr) >= 2
    /\ Addr[1] = ":"
    /\ \A i \in 2..Len(Addr) : Addr[i] \in Digits

\* C11: for an address ":<port>" resolveListen returns the stream default
\* protocol and the address itself as its single target (empty host, the
\* given port) with no error, so that the bind loop is entered; it is not
\* taken for a unix-domain path.
C11_PortOnlyIsStream ==
    (AfterResolve /\ PortOnly) =>
        /\ network = StreamDefault
        /\ addrs = <<Addr>>
        /\ (tried = << >> => pc = "bind")

\* C12: whenever resolveListen returns without error, so that the bind loop
\* is entered, the target list is non-empty.
C12_TargetsNonEmpty == pc = "bind" => Len(addrs) >= 1

\* C13: the targets are handed to net.Listen / net.ListenPacket in resolved
\* order, none after the first success; after a success the error is nil
\* and the listener is the one of the last target tried, also when earlier
\* targets failed; when every target failed the error is that of the last
\* target.
C13_BindInOrder ==
    (AfterResolve /\ op \in {"Listen", "ListenPacket"}) =>
        /\ Len(tried) <= Len(addrs)
        /\ tried = SubSeq(addrs, 1, Len(tried))
        /\ (pc = "bind" => Len(tried) = idx - 1 /\ ~lstn.ok)
        /\ (lstn.ok =>
               /\ tried # << >>
               /\ lstn.target = tried[Len(tried)]
               /\ err = Nil
               /\ pc # "bind")
        /\ (~lstn.ok /\ tried # << >> =>
               err = ErrBind(tried[Len(tried)]))
        /\ (~lstn.ok /\ pc \in {"listen_ret", "done"} /\ tried # << >> =>
               tried = addrs /\ err = ErrBind(addrs[Len(addrs)]))

\* C13 witness: Listen("eth0:80") has returned the listener of the second
\* target after the first target failed to bind.
C13_Witness ==
    /\ pc = "done"
    /\ op = "Listen"
    /\ Len(addrs) = 2
    /\ tried = addrs
    /\ lstn = Listener(addrs[2])
    /\ err = Nil

\* the host of Addr names an interface whose addresses can be enumerated
InterfaceAddress ==
    /\ ~UnsupportedScheme
    /\ ~IsIP(resolveHostPort(Stripped).host)
    /\ resolveHostPort(Stripped).host \in DOMAIN ifaces
    /\ ~ifaces[resolveHostPort(Stripped).host].fails

\* C14: when the host names an interface with n addresses, resolveListen
\* returns n targets in enumeration order, the i-th being the i-th interface
\* address joined with the port (the bare address when there is no port),
\* with the stream default protocol unless a scheme fixed it.
C14_InterfaceTargets ==
    (AfterResolve /\ InterfaceAddress) =>
        LET hp  == resolveHostPort(Stripped)
            ifa == ifaces[hp.host].addrs
        IN  /\ Len(addrs) = Len(ifa)
            /\ \A i \in 1..Len(ifa) :
                  addrs[i] = (IF hp.port = Empty THEN ifa[i]
                              ELSE JoinHostPort(ifa[i], hp.port))
            /\ network = (IF SchemeOf = Empty THEN StreamDefault ELSE SchemeOf)
            /\ (tried = << >> /\ ifa # << >> => pc = "bind")

\* C14 witness: "eth0:80" with two addresses on eth0 resolved to
\* "10.0.0.1/8:80" and "[fe80::1/64]:80" under tcp.
C14_Witness ==
    /\ pc = "bind"
    /\ Addr = A_if_port
    /\ network = S_tcp
    /\ addrs = <<IfAddr4 \o <<":", "8", "0">>,
                 <<"[">> \o IfAddr6 \o <<"]", ":", "8", "0">> >>

\* C15: with an allowed explicit scheme the protocol resolveListen returns
\* is that scheme for an IP literal, an interface and a path alike, the
\* defaults being used only without a scheme; the targets are built from
\* the address with "<scheme>://" cut off.
C15_SchemeFixesProtocol ==
    (AfterResolve /\ ~UnsupportedScheme) =>
        LET hp == resolveHostPort(Stripped)
        IN  /\ (SchemeOf # Empty => network = SchemeOf)
            /\ (SchemeOf = Empty => network \in {Empty, StreamDefault, UnixDefault})
            /\ (IsIP(hp.host) => addrs = <<Stripped>>)
            /\ (~IsIP(hp.host) /\ hp.host \notin DOMAIN ifaces => addrs = <<Stripped>>)
            /\ (~IsIP(hp.host) /\ hp.host \in DOMAIN ifaces =>
                   \A i \in 1..Len(addrs) :
                       \/ addrs[i] = ifaces[hp.host].addrs[i]
                       \/ addrs[i] = JoinHostPort(ifaces[hp.host].addrs[i], hp.port))

\* C15 witness: "tcp6://[::1]:0" resolved to tcp6 and the single target
\* "[::1]:0".
C15_Witness ==
    /\ pc = "bind"
    /\ Addr = A_tcp6_loopback
    /\ network = S_tcp6
    /\ addrs = << <<"[", ":", ":", "1", "]", ":", "0">> >>
    /\ err = Nil

\* the tasks whose ServeConn has been invoked
Invoked == {c \in Conns : tpc[c] \in {"running", "close", "done", "recover", "exit"}}

\* C16: tasks are started in acceptance order, one per accepted connection
\* with one ServeConn invocation each, and join.Add(1) precedes the go
\* statement: the counter is never negative and equals the number of
\* started tasks that have not decremented it, plus the one connection
\* Serve has counted and starts with its next statement; so when the wait
\* has seen zero, every started task has decremented.
C16_CounterTracksTasks ==
    /\ \A c \in Dispatched : c <= accepted /\ \A d \in 1..c : d \in Dispatched
    /\ \A c \in Conns :
          /\ (c < accepted => c \in Dispatched)
          /\ serveConnCalls[c] = (IF c \in Invoked THEN 1 ELSE 0)
    /\ (spc \in {"add", "go"} => accepted >= 1 /\ tpc[accepted] = "none")
    /\ (spc \notin {"add", "go"} => Dispatched = 1..accepted)
    /\ join >= 0
    /\ join = Cardinality({c \in Dispatched : joinDones[c] = 0})
              + (IF spc = "go" THEN 1 ELSE 0)
    /\ (spc \in {"close", "returned"} => \A c \in Dispatched : joinDones[c] = 1)

\* C16 witness: Serve waits with the counter at one: the first task is
\* through, the second, started after it, is still in its handler.
C16_Witness ==
    /\ spc = "wait"
    /\ join = 1
    /\ tpc[1] = "exit"
    /\ tpc[2] = "running"
    /\ serveConnCalls[1] = 1 /\ serveConnCalls[2] = 1

\* C17: ListenAndServe enters Serve only with a listener Listen opened:
\* without one it returns an error, Serve never runs on a nil listener,
\* nothing is accepted and no handler is invoked.
C17_ServeOnlyWithListener ==
    op = "ListenAndServe" =>
        /\ spc # "panic"
        /\ (pc = "serve" => lstn.ok)
        /\ (pc \in {"listen_ret", "done"} /\ ~lstn.ok => err # Nil /\ spc = "none")
        /\ (~lstn.ok => accepted = 0 /\ Invoked = {})

\* C18 as stated: the context is cancelled only once the accept loop has
\* ended on a fatal error, and every ServeConn invocation started with the
\* context not cancelled.
C18_HandlersStartUncancelled ==
    /\ (cancelled => spc \in {"wait", "close", "returned"})
    /\ \A c \in Conns : startCtx[c] # "cancelled"

\* C18 as amended (state part): the context is cancelled only after the
\* accept loop has ended on a fatal error, never while Serve accepts.
C18_CancelledAfterLoop ==
    /\ (cancelled => spc \in {"wait", "close", "returned"} /\ acceptErr \in FatalErrors)
    /\ (spc \in {"loop", "accept", "sleep", "add", "go"} => ~cancelled)
    /\ \A c \in Conns : startCtx[c] = "cancelled" => cancelled

\* C18 as amended (step part): every task is started by a go statement run
\* with the context not cancelled, and once it is cancelled no connection
\* is accepted and no task started.
C18_NoDispatchAfterCancel ==
    /\ (cancelled => accepted' = accepted)
    /\ \A c \in Conns :
          (tpc[c] = "none" /\ tpc'[c] # "none") => (~cancelled /\ ~cancelled')

\* C18 as amended: the context is cancelled only after Serve's accept loop
\* has ended on a fatal error; every task is dispatched before that and
\* nothing is accepted or dispatched after it, but a dispatched task may
\* invoke ServeConn only after the cancellation, with a context that is
\* already cancelled.
C18_CancelOnlyAfterLoop ==
    [](C18_CancelledAfterLoop) /\ [][C18_NoDispatchAfterCancel]_vars

\* C18 witness: a task dispatched before the fatal error has invoked
\* ServeConn after the cancellation, while Serve waits for it.
C18_Witness ==
    /\ spc = "wait"
    /\ cancelled
    /\ tpc[1] = "running"
    /\ startCtx[1] = "cancelled"

\* C19: a panic is logged only by the last step of its task, after the
\* connection was closed and the counter decremented, with the address the
\* task took from the connection before it invoked ServeConn; the counter
\* no longer counts a task that has still to log.
C19_PanicLoggedLast ==
    \A c \in Conns :
        /\ (c \in Invoked => peerAddr[c] = RemoteAddr(c))
        /\ (c \notin Invoked => peerAddr[c] = NoAddr)
        /\ (c \in panicLog =>
               /\ panicked[c]
               /\ tpc[c] = "exit"
               /\ connCloses[c] = 1
               /\ joinDones[c] = 1
               /\ loggedAddr[c] = RemoteAddr(c))
        /\ (c \notin panicLog => loggedAddr[c] = NoAddr)
        /\ (tpc[c] = "exit" /\ panicked[c] => c \in panicLog)
        /\ (tpc[c] = "recover" => joinDones[c] = 1 /\ connCloses[c] = 1)

\* C19 witness: Serve has returned and ListenAndServe with it, while the
\* task of a panicked handler has still to log the panic.
C19_Witness ==
    /\ pc = "done"
    /\ spc = "returned"
    /\ panicked[1]
    /\ tpc[1] = "recover"
    /\ 1 \notin panicLog
    /\ join = 0

====
